---- MODULE Spec2Model ----
(***************************************************************************)
(* Model of scripts/normalize_data.py: the title tokenizer, the display    *)
(* title canonicalizer, the song catalog builder, the sequence matcher,    *)
(* the show resolver, the setlist linker and the batch driver              *)
(* normalize_database_schema.                                              *)
(*                                                                         *)
(* A Python str is modelled as a sequence of one-character strings, so     *)
(* that lower(), str.replace(), the word regex, strip(), date parsing and  *)
(* number parsing are computed on characters.  A Python None is the value  *)
(* None (a one-element sequence that is no character sequence); an         *)
(* Optional[int] id is 0 for None (ids are minted from 1 and the code      *)
(* tests them by truthiness).                                              *)
(***************************************************************************)
EXTENDS Integers, Sequences, FiniteSets, TLC

\* ------------------------------------------------------------------ bounds
MaxSessions == 2
MaxRows == 2
MaxTokLen == 3
MaxIndex == 2

\* ------------------------------------------------------------- characters
None == <<"None">>

Uppers == <<"A","B","C","D","E","F","G","H","I","J","K","L","M","N","O","P","Q","R","S","T","U","V","W","X","Y","Z">>
Lowers == <<"a","b","c","d","e","f","g","h","i","j","k","l","m","n","o","p","q","r","s","t","u","v","w","x","y","z">>
Digits == <<"0","1","2","3","4","5","6","7","8","9">>

Range(s) == {s[i] : i \in DOMAIN s}

IndexIn(c, s) == CHOOSE i \in DOMAIN s : s[i] = c

UpperSet == Range(Uppers)
LowerSet == Range(Lowers)
DigitSet == Range(Digits)
WordCharSet == UpperSet \cup LowerSet \cup DigitSet \cup {"_"}

char_lower(c) == IF c \in UpperSet THEN Lowers[IndexIn(c, Uppers)] ELSE c

char_upper(c) == IF c \in LowerSet THEN Uppers[IndexIn(c, Lowers)] ELSE c

str_lower(s) == [i \in DOMAIN s |-> char_lower(s[i])]

\* \w of the re module on the characters used here
IsWordChar(c) == c \in WordCharSet

\* \s of the re module / str.strip() on the characters used here
IsSpace(c) == c = " "

HasPrefix(s, p) == Len(p) <= Len(s) /\ SubSeq(s, 1, Len(p)) = p

RECURSIVE str_replace(_, _, _)
str_replace(s, old, new) ==
    IF Len(s) = 0 THEN <<>>
    ELSE IF HasPrefix(s, old)
         THEN new \o str_replace(SubSeq(s, Len(old) + 1, Len(s)), old, new)
         ELSE <<s[1]>> \o str_replace(Tail(s), old, new)

RECURSIVE str_lstrip(_)
str_lstrip(s) == IF Len(s) > 0 /\ IsSpace(s[1]) THEN str_lstrip(Tail(s)) ELSE s

RECURSIVE str_rstrip(_)
str_rstrip(s) ==
    IF Len(s) > 0 /\ IsSpace(s[Len(s)]) THEN str_rstrip(SubSeq(s, 1, Len(s) - 1)) ELSE s

str_strip(s) == str_rstrip(str_lstrip(s))

\* RE_WHITESPACE.split(s) with the empty pieces dropped (the callers drop them)
RECURSIVE split_whitespace(_, _)
split_whitespace(s, cur) ==
    IF Len(s) = 0 THEN (IF cur = <<>> THEN <<>> ELSE <<cur>>)
    ELSE IF IsSpace(s[1])
         THEN (IF cur = <<>> THEN <<>> ELSE <<cur>>) \o split_whitespace(Tail(s), <<>>)
         ELSE split_whitespace(Tail(s), Append(cur, s[1]))

RECURSIVE join_space(_)
join_space(ws) ==
    IF Len(ws) = 0 THEN <<>>
    ELSE IF Len(ws) = 1 THEN ws[1]
    ELSE ws[1] \o <<" ">> \o join_space(Tail(ws))

\* RE_WHITESPACE.sub(' ', s)
RECURSIVE collapse_whitespace(_)
collapse_whitespace(s) ==
    IF Len(s) = 0 THEN <<>>
    ELSE IF IsSpace(s[1])
         THEN <<" ">> \o collapse_whitespace(str_lstrip(s))
         ELSE <<s[1]>> \o collapse_whitespace(Tail(s))

str_capitalize(w) ==
    [i \in DOMAIN w |-> IF i = 1 THEN char_upper(w[i]) ELSE char_lower(w[i])]

\* config.MINIMAL_REPLACEMENTS in dict (insertion) order
MINIMAL_REPLACEMENTS ==
    << <<<<"(">>, <<" ">>>>, <<<<")">>, <<" ">>>>, <<<<"[">>, <<" ">>>>, <<<<"]">>, <<" ">>>>,
       <<<<"{">>, <<" ">>>>, <<<<"}">>, <<" ">>>>,
       <<<<"!">>, <<>>>>, <<<<"?">>, <<>>>>, <<<<".">>, <<>>>>,
       <<<<"&">>, <<" ","a","n","d"," ">>>>, <<<<"+">>, <<" ","a","n","d"," ">>>>,
       <<<<"/">>, <<" ">>>>, <<<<"\\">>, <<" ">>>>,
       <<<<" ","-"," ">>, <<" ">>>>, <<<<"-">>, <<" ">>>>, <<<<"_">>, <<" ">>>>,
       <<<<":">>, <<>>>>, <<<<";">>, <<>>>>, <<<<"\"">>, <<>>>> >>

RECURSIVE apply_replacements(_, _)
apply_replacements(s, k) ==
    IF k > Len(MINIMAL_REPLACEMENTS) THEN s
    ELSE apply_replacements(
            str_replace(s, MINIMAL_REPLACEMENTS[k][1], MINIMAL_REPLACEMENTS[k][2]), k + 1)

\* ------------------------------------------------------ the word regex
\* \b before position p (1..Len(s)+1)
WordBoundary(s, p) ==
    LET before == p > 1 /\ IsWordChar(s[p - 1])
        after  == p <= Len(s) /\ IsWordChar(s[p])
    IN before # after

InWordClass(c) == IsWordChar(c) \/ c = "'"

\* greedy end of [\w']+ started at p
RECURSIVE class_run_end(_, _)
class_run_end(s, e) ==
    IF e < Len(s) /\ InWordClass(s[e + 1]) THEN class_run_end(s, e + 1) ELSE e

\* backtrack from e down to p until \b holds after the match; 0 when none
RECURSIVE backtrack_end(_, _, _)
backtrack_end(s, p, e) ==
    IF e < p THEN 0
    ELSE IF WordBoundary(s, e + 1) THEN e
    ELSE backtrack_end(s, p, e - 1)

\* re.findall(r"\b[\w']+\b", s), scanning from position p
RECURSIVE findall_words(_, _)
findall_words(s, p) ==
    IF p > Len(s) THEN <<>>
    ELSE IF WordBoundary(s, p) /\ InWordClass(s[p])
         THEN LET e == backtrack_end(s, p, class_run_end(s, p))
              IN IF e = 0 THEN findall_words(s, p + 1)
                 ELSE <<SubSeq(s, p, e)>> \o findall_words(s, e + 1)
         ELSE findall_words(s, p + 1)

\* ------------------------------------------------------------------ inputs
T_ThunderRoad == <<"T","h","u","n","d","e","r"," ","R","o","a","d">>
T_ThunderRoadSolo == <<"T","h","u","n","d","e","r"," ","R","o","a","d"," ","(","S","o","l","o"," ","P","i","a","n","o",")">>
T_thunder_road == <<"t","h","u","n","d","e","r"," ","r","o","a","d","!">>
T_BITUSA == <<"B","o","r","n"," ","I","n"," ","T","h","e"," ","U","S","A">>
T_BITUSA_dots == <<"B","o","r","n"," ","i","n"," ","t","h","e"," ","U",".","S",".","A",".">>
T_BITUSA_Acoustic == <<"B","o","r","n"," ","I","n"," ","T","h","e"," ","U","S","A"," ","(","A","c","o","u","s","t","i","c",")">>
T_Punct == <<"!","?">>
T_Twist == <<"T","w","i","s","t"," ","&"," ","S","h","o","u","t">>
A_BornToRun == <<"B","o","r","n"," ","T","o"," ","R","u","n">>
A_Tracks == <<"T","r","a","c","k","s">>
K_Album == <<"A","l","b","u","m">>
K_Outtake == <<"O","u","t","t","a","k","e">>
D_Padded == <<"0","8","/","1","5","/","1","9","7","5">>
D_Unpadded == <<"8","/","1","5","/","1","9","7","5">>
D_1999 == <<"0","4","/","0","9","/","1","9","9","9">>
D_Bad == <<"T","B","A">>
V_BottomLine == <<"T","h","e"," ","B","o","t","t","o","m"," ","L","i","n","e">>
V_bottomline_lc == <<"t","h","e"," ","b","o","t","t","o","m"," ","l","i","n","e">>
V_BottomLine_ws == <<" ","T","h","e"," ","B","o","t","t","o","m"," ","L","i","n","e"," ">>
V_Palau == <<"P","a","l","a","u"," ","S","a","n","t"," ","J","o","r","d","i">>
TR_1975 == <<"1","9","7","5"," ","T","o","u","r">>
TR_Reunion == <<"R","e","u","n","i","o","n"," ","T","o","u","r">>
TR_REUNION_uc == <<"R","E","U","N","I","O","N">>
TR_Unknown == <<"U","n","k","n","o","w","n"," ","T","o","u","r">>
P_1 == <<"1">>
P_2 == <<"2">>
P_x == <<"x">>
T_TwistStar == <<"T","w","i","s","t"," ","&","S","h","o","u","t","*">>
P_neg == <<"-","1">>
P_frac == <<"1",".","5">>
V_Blank == <<" "," ">>
C_NewYork == <<"N","e","w"," ","Y","o","r","k">>
C_Barcelona == <<"B","a","r","c","e","l","o","n","a">>
SN_Early == <<"E","a","r","l","y"," ","s","h","o","w">>
N_Debut == <<"T","o","u","r"," ","d","e","b","u","t">>

\* session records {session, type, song} of "Sessions, Outtakes, Songs.csv"
SessionPool ==
    { [session |-> A_BornToRun, type |-> K_Album,   song |-> T_ThunderRoad],
      [session |-> A_Tracks,    type |-> K_Outtake, song |-> T_thunder_road],
      [session |-> T_BITUSA,    type |-> K_Album,   song |-> T_BITUSA],
      [session |-> A_Tracks,    type |-> K_Outtake, song |-> T_BITUSA_Acoustic],
      [session |-> A_Tracks,    type |-> K_Outtake, song |-> <<>>] }

\* a raw row of "Setlists.csv" with the columns the pipeline reads that vary
\* here (statecode, statename, countrycode, countryname, apidate are copied or
\* ignored and are left out)
RawRow(date, venue, tour, city, shownotes, song, position, notes) ==
    [date |-> date, venue |-> venue, tour |-> tour, city |-> city, shownotes |-> shownotes,
     song |-> song, position |-> position, notes |-> notes]

RowPool ==
    { RawRow(D_Padded,   V_BottomLine,    TR_1975,       <<>>,        <<>>,     T_ThunderRoadSolo, P_1,    <<>>),
      RawRow(D_Unpadded, V_BottomLine,    TR_1975,       C_NewYork,   <<>>,     T_ThunderRoad,     P_2,    <<>>),
      RawRow(D_Padded,   V_bottomline_lc, <<>>,          <<>>,        <<>>,     T_ThunderRoad,     P_frac, <<>>),
      RawRow(D_Padded,   V_BottomLine_ws, <<>>,          <<>>,        <<>>,     T_ThunderRoadSolo, P_1,    <<>>),
      RawRow(D_Padded,   V_BottomLine,    TR_1975,       C_NewYork,   SN_Early, T_BITUSA,          P_neg,  N_Debut),
      RawRow(D_1999,     V_Palau,         TR_Reunion,    C_Barcelona, <<>>,     T_BITUSA_dots,     P_x,    N_Debut),
      RawRow(D_Bad,      V_Palau,         TR_REUNION_uc, C_Barcelona, <<>>,     T_BITUSA,          P_1,    <<>>),
      RawRow(<<>>,       V_Palau,         <<>>,          <<>>,        <<>>,     T_Twist,           <<>>,   <<>>),
      RawRow(D_1999,     V_Palau,         TR_Reunion,    C_Barcelona, <<>>,     T_Punct,           P_1,    <<>>),
      RawRow(D_Bad,      V_Palau,         <<>>,          <<>>,        SN_Early, T_TwistStar,       P_2,    <<>>),
      RawRow(D_1999,     V_Blank,         TR_Reunion,    C_Barcelona, <<>>,     T_ThunderRoad,     P_1,    <<>>) }

\* the strings of the inputs, for the tables below
KnownTitles ==
    {r.song : r \in SessionPool \cup RowPool} \cup {str_strip(r.song) : r \in RowPool}
KnownDates == {str_strip(r.date) : r \in RowPool}

\* ------------------------------------------------------ helper functions
\* lines 33-40, computed
tokenize(title) ==
    IF title = None \/ title = <<>> THEN <<>>
    ELSE findall_words(apply_replacements(str_lower(title), 1), 1)

\* tokenize on the known titles, evaluated once
TokenTable == [t \in KnownTitles |-> tokenize(t)]

preprocess_title_for_matching(title) ==
    IF title \in DOMAIN TokenTable THEN TokenTable[title] ELSE tokenize(title)

DT_UnknownTitle == <<"U","n","k","n","o","w","n"," ","T","i","t","l","e">>
DT_Sandy_in == <<"4","T","h"," ","O","f"," ","J","u","l","y"," ","A","s","b","u","r","y"," ","P","a","r","k"," ","S","a","n","d","y">>
DT_Sandy_out == <<"4","t","h"," ","O","f"," ","J","u","l","y"," ","A","s","b","u","r","y"," ","P","a","r","k"," ","(","S","a","n","d","y",")">>
DT_Bitusa_in == <<"B","o","r","n"," ","I","n"," ","T","h","e"," ","U","s","a">>
DT_Bitusa_out == <<"B","o","r","n"," ","I","n"," ","T","h","e"," ","U",".","S",".","A",".">>

\* lines 42-53, computed
display_title_of(title) ==
    IF title = None \/ title = <<>> THEN DT_UnknownTitle
    ELSE LET words == split_whitespace(str_strip(apply_replacements(title, 1)), <<>>)
             caps  == [i \in DOMAIN words |-> str_capitalize(words[i])]
             d0    == str_strip(collapse_whitespace(join_space(caps)))
             d1    == IF d0 = DT_Sandy_in THEN DT_Sandy_out ELSE d0
             d2    == IF d1 = DT_Bitusa_in THEN DT_Bitusa_out ELSE d1
         IN IF d2 = <<>> THEN DT_UnknownTitle ELSE d2

\* display_title_of on the known titles, evaluated once
DisplayTable == [t \in KnownTitles |-> display_title_of(t)]

get_canonical_display_title(title) ==
    IF title \in DOMAIN DisplayTable THEN DisplayTable[title] ELSE display_title_of(title)

A_Unknown == <<"U","n","k","n","o","w","n">>
AL_bitusa_lc == <<"b","o","r","n"," ","i","n"," ","t","h","e"," ","u","s","a">>
AL_Bitusa == <<"B","o","r","n"," ","i","n"," ","t","h","e"," ","U",".","S",".","A",".">>

get_album_from_session(session) ==
    IF session = None THEN A_Unknown
    ELSE LET album_name == str_strip(collapse_whitespace(session))
         IN IF str_lower(album_name) = AL_bitusa_lc THEN AL_Bitusa ELSE album_name

\* `c in it` of is_subsequence: the least position >= pos of haystack holding
\* c, or 0 when the iterator is exhausted without finding it
RECURSIVE iter_find(_, _, _)
iter_find(haystack, pos, c) ==
    IF pos > Len(haystack) THEN 0
    ELSE IF haystack[pos] = c THEN pos
    ELSE iter_find(haystack, pos + 1, c)

\* the iterator position after a successful `c in it` at position p
iter_advance_shared(p) == p

iter_advance(p) == p + 1

\* all(c in it for c in needle), from needle position i with the iterator at pos
RECURSIVE subsequence_from(_, _, _, _)
subsequence_from(needle, i, haystack, pos) ==
    IF i > Len(needle) THEN TRUE
    ELSE LET p == iter_find(haystack, pos, needle[i])
         IN IF p = 0 THEN FALSE
            ELSE subsequence_from(needle, i + 1, haystack, iter_advance(p))

is_subsequence(needle, haystack) == subsequence_from(needle, 1, haystack, 1)

\* the loop without the skip of the empty entries of line 74
RECURSIVE collect_matches_keep_empty(_, _, _)
collect_matches_keep_empty(raw_title_words, canonical_map, k) ==
    IF k > Len(canonical_map) THEN <<>>
    ELSE LET e == canonical_map[k]
             rest == collect_matches_keep_empty(raw_title_words, canonical_map, k + 1)
         IN IF is_subsequence(e.words, raw_title_words)
            THEN << <<Len(e.words), e.song_id>> >> \o rest
            ELSE rest

\* the loop of find_match_by_sequence: (len(canonical_words), song_id) of every
\* non-empty index entry that is a subsequence of the query, in index order.
\* An index (dict song_id -> word list) is a sequence of [song_id, words]
\* records in insertion order.
RECURSIVE collect_matches(_, _, _)
collect_matches(raw_title_words, canonical_map, k) ==
    IF k > Len(canonical_map) THEN <<>>
    ELSE LET e == canonical_map[k]
             rest == collect_matches(raw_title_words, canonical_map, k + 1)
         IN IF e.words = <<>> THEN rest
            ELSE IF is_subsequence(e.words, raw_title_words)
                 THEN << <<Len(e.words), e.song_id>> >> \o rest
                 ELSE rest

\* insertion of m before the equal keys: a sort that is not stable
RECURSIVE insert_desc_before_equal(_, _)
insert_desc_before_equal(sorted, m) ==
    IF Len(sorted) = 0 THEN <<m>>
    ELSE IF sorted[1][1] > m[1]
         THEN <<sorted[1]>> \o insert_desc_before_equal(Tail(sorted), m)
    ELSE <<m>> \o sorted

\* insertion of m into a list sorted by descending key, after the equal keys
RECURSIVE insert_desc(_, _)
insert_desc(sorted, m) ==
    IF Len(sorted) = 0 THEN <<m>>
    ELSE IF sorted[1][1] >= m[1] THEN <<sorted[1]>> \o insert_desc(Tail(sorted), m)
    ELSE <<m>> \o sorted

\* the matches left in index order, without the sort of line 78
sort_matches_unsorted(matches, acc) == acc \o matches

\* matches.sort(key=lambda x: x[0], reverse=True): a stable descending sort
RECURSIVE sort_matches(_, _)
sort_matches(matches, acc) ==
    IF Len(matches) = 0 THEN acc
    ELSE sort_matches(Tail(matches), insert_desc(acc, matches[1]))

find_match_first_seen(raw_title_words, canonical_map) ==
    IF raw_title_words = <<>> THEN 0
    ELSE LET matches == collect_matches(raw_title_words, canonical_map, 1)
         IN IF matches = <<>> THEN 0 ELSE matches[1][2]

find_match_by_sequence(raw_title_words, canonical_map) ==
    IF raw_title_words = <<>> THEN 0
    ELSE LET matches == collect_matches(raw_title_words, canonical_map, 1)
         IN IF matches = <<>> THEN 0
            ELSE sort_matches(matches, <<>>)[1][2]

\* ------------------------------------------------- dates and positions
RECURSIVE split_on(_, _, _)
split_on(s, sep, cur) ==
    IF Len(s) = 0 THEN <<cur>>
    ELSE IF s[1] = sep THEN <<cur>> \o split_on(Tail(s), sep, <<>>)
    ELSE split_on(Tail(s), sep, Append(cur, s[1]))

AllDigits(s) == \A i \in DOMAIN s : s[i] \in DigitSet

RECURSIVE digits_value(_, _)
digits_value(s, acc) ==
    IF Len(s) = 0 THEN acc
    ELSE digits_value(Tail(s), 10 * acc + (IndexIn(s[1], Digits) - 1))

IsLeap(y) == (y % 4 = 0 /\ y % 100 # 0) \/ y % 400 = 0

DaysInMonth(y, m) ==
    IF m = 2 THEN (IF IsLeap(y) THEN 29 ELSE 28)
    ELSE IF m \in {4, 6, 9, 11} THEN 30 ELSE 31

NaT == [nat |-> TRUE, y |-> 0, m |-> 0, d |-> 0]

\* pd.to_datetime(s, format='%m/%d/%Y', errors='coerce'): a date or NaT.
\* %m and %d take one or two digits, %Y exactly four; a date outside the
\* calendar or outside the nanosecond Timestamp range is coerced to NaT.
parse_date(s) ==
    LET f == split_on(s, "/", <<>>)
    IN IF Len(f) # 3 THEN NaT
       ELSE IF ~(AllDigits(f[1]) /\ AllDigits(f[2]) /\ AllDigits(f[3])) THEN NaT
       ELSE IF ~(Len(f[1]) \in {1, 2} /\ Len(f[2]) \in {1, 2} /\ Len(f[3]) = 4) THEN NaT
       ELSE LET m == digits_value(f[1], 0)
                d == digits_value(f[2], 0)
                y == digits_value(f[3], 0)
            IN IF m \in 1..12 /\ y \in 1678..2261 /\ d \in 1..DaysInMonth(y, m)
               THEN [nat |-> FALSE, y |-> y, m |-> m, d |-> d]
               ELSE NaT

\* parse_date on the known dates, evaluated once
DateTable == [s \in KnownDates |-> parse_date(s)]

to_datetime(s) == IF s \in DOMAIN DateTable THEN DateTable[s] ELSE parse_date(s)

\* zero-padded decimal of n on w digits
RECURSIVE zero_padded(_, _)
zero_padded(n, w) ==
    IF w = 0 THEN <<>> ELSE Append(zero_padded(n \div 10, w - 1), Digits[(n % 10) + 1])

\* date_obj.strftime('%Y-%m-%d')
strftime_ymd(dt) == zero_padded(dt.y, 4) \o <<"-">> \o zero_padded(dt.m, 2) \o <<"-">> \o zero_padded(dt.d, 2)

\* date_obj.strftime('%Y')
strftime_y(dt) == zero_padded(dt.y, 4)

\* pd.to_numeric(v, errors='coerce') followed by int(): an optional sign, digits
\* and an optional fraction give the integer part (truncated toward zero);
\* anything else is NaN, for which the caller takes 0.  The result is
\* [nan |-> BOOLEAN, int |-> value].
to_numeric_int(v) ==
    LET t    == str_strip(v)
        neg  == Len(t) > 0 /\ t[1] = "-"
        body == IF Len(t) > 0 /\ t[1] \in {"-", "+"} THEN Tail(t) ELSE t
        f    == split_on(body, ".", <<>>)
        ok   == /\ Len(f) \in {1, 2}
                /\ \A i \in DOMAIN f : AllDigits(f[i])
                /\ \E i \in DOMAIN f : Len(f[i]) > 0
        mag  == digits_value(f[1], 0)
    IN IF ok THEN [nan |-> FALSE, int |-> IF neg THEN 0 - mag ELSE mag]
       ELSE [nan |-> TRUE, int |-> 0]

\* --------------------------------------------------------- catalog builder
K_outtake_lc == <<"o","u","t","t","a","k","e">>
A_Cover == <<"C","o","v","e","r">>

\* lines 90-103: the loop over the session rows; all_songs_data in order
RECURSIVE session_songs(_, _, _)
session_songs(df, k, acc) ==
    IF k > Len(df) THEN acc
    ELSE LET row == df[k]
             title_raw == row.song
             processed_words == preprocess_title_for_matching(title_raw)
             display_title == get_canonical_display_title(title_raw)
             seen == {acc[i].words : i \in DOMAIN acc}
         IN IF title_raw = <<>> THEN session_songs(df, k + 1, acc)
            ELSE IF processed_words = <<>> \/ display_title = <<>> THEN session_songs(df, k + 1, acc)
            ELSE IF processed_words \in seen THEN session_songs(df, k + 1, acc)
            ELSE session_songs(df, k + 1, Append(acc,
                    [title |-> display_title,
                     album |-> get_album_from_session(row.session),
                     is_outtake |-> IF str_lower(row.type) = K_outtake_lc THEN 1 ELSE 0,
                     words |-> processed_words]))

\* the same loop without the seen_preprocessed_words test of line 96
RECURSIVE session_songs_no_seen(_, _, _)
session_songs_no_seen(df, k, acc) ==
    IF k > Len(df) THEN acc
    ELSE LET row == df[k]
             title_raw == row.song
             processed_words == preprocess_title_for_matching(title_raw)
             display_title == get_canonical_display_title(title_raw)
         IN IF title_raw = <<>> THEN session_songs_no_seen(df, k + 1, acc)
            ELSE IF processed_words = <<>> \/ display_title = <<>> THEN session_songs_no_seen(df, k + 1, acc)
            ELSE session_songs_no_seen(df, k + 1, Append(acc,
                    [title |-> display_title,
                     album |-> get_album_from_session(row.session),
                     is_outtake |-> IF str_lower(row.type) = K_outtake_lc THEN 1 ELSE 0,
                     words |-> processed_words]))

\* position of the group of words in the ordered dict, 0 when absent
GroupIndex(groups, words) ==
    IF \E i \in DOMAIN groups : groups[i].words = words
    THEN CHOOSE i \in DOMAIN groups : groups[i].words = words
    ELSE 0

\* lines 114-120: missing_songs_map, a dict in insertion order from the token
\* tuple to the set of raw titles, over the titles of the 'song' column
\* (adding a title twice to a set is drop_duplicates() here)
RECURSIVE missing_songs_map(_, _, _, _)
missing_songs_map(df, k, known, groups) ==
    IF k > Len(df) THEN groups
    ELSE LET title_raw == df[k].song
             processed_words == preprocess_title_for_matching(title_raw)
             g == GroupIndex(groups, processed_words)
         IN IF title_raw = <<>> \/ processed_words = <<>> \/ processed_words \in known
            THEN missing_songs_map(df, k + 1, known, groups)
            ELSE IF g = 0
                 THEN missing_songs_map(df, k + 1, known,
                        Append(groups, [words |-> processed_words, titles |-> {title_raw}]))
                 ELSE missing_songs_map(df, k + 1, known,
                        [groups EXCEPT ![g].titles = @ \cup {title_raw}])

\* min(original_titles, key=len) returns the first minimal element in the
\* iteration order of the set, which the str hash seed of the run decides:
\* any title of minimal length
ShortestTitles(titles) == {t \in titles : \A u \in titles : Len(t) <= Len(u)}

RepresentativeChoices(groups) ==
    LET all == UNION {groups[i].titles : i \in DOMAIN groups}
    IN {r \in [DOMAIN groups -> all] : \A i \in DOMAIN groups : r[i] \in ShortestTitles(groups[i].titles)}

\* the characters of a token in code point order
CodeOrder == <<"'">> \o Digits \o Lowers

\* a < b on str
RECURSIVE str_less(_, _)
str_less(a, b) ==
    IF Len(b) = 0 THEN FALSE
    ELSE IF Len(a) = 0 THEN TRUE
    ELSE IF a[1] = b[1] THEN str_less(Tail(a), Tail(b))
    ELSE IndexIn(a[1], CodeOrder) < IndexIn(b[1], CodeOrder)

\* a < b on tuples of str
RECURSIVE tuple_less(_, _)
tuple_less(a, b) ==
    IF Len(b) = 0 THEN FALSE
    ELSE IF Len(a) = 0 THEN TRUE
    ELSE IF a[1] = b[1] THEN tuple_less(Tail(a), Tail(b))
    ELSE str_less(a[1], b[1])

RECURSIVE insert_cover_sorted(_, _)
insert_cover_sorted(sorted, c) ==
    IF Len(sorted) = 0 THEN <<c>>
    ELSE IF tuple_less(c.words, sorted[1].words) THEN <<c>> \o sorted
    ELSE <<sorted[1]>> \o insert_cover_sorted(Tail(sorted), c)

\* one cover per group, in the sorted order of the token tuples
RECURSIVE new_songs_sorted(_, _, _)
new_songs_sorted(groups, reps, k) ==
    IF k > Len(groups) THEN <<>>
    ELSE LET display_title == get_canonical_display_title(reps[k])
         IN IF display_title = <<>> THEN new_songs_sorted(groups, reps, k + 1)
            ELSE insert_cover_sorted(new_songs_sorted(groups, reps, k + 1),
                    [title |-> display_title, album |-> A_Cover, is_outtake |-> 0,
                     words |-> groups[k].words])

\* lines 122-134: one cover per group, in dict order
RECURSIVE new_songs(_, _, _)
new_songs(groups, reps, k) ==
    IF k > Len(groups) THEN <<>>
    ELSE LET display_title == get_canonical_display_title(reps[k])
         IN IF display_title = <<>> THEN new_songs(groups, reps, k + 1)
            ELSE << [title |-> display_title, album |-> A_Cover, is_outtake |-> 0,
                     words |-> groups[k].words] >> \o new_songs(groups, reps, k + 1)

\* line 139: drop_duplicates(subset=['_processed_tuple'], keep='first')
RECURSIVE drop_duplicates(_, _)
drop_duplicates(df, acc) ==
    IF Len(df) = 0 THEN acc
    ELSE IF \E i \in DOMAIN acc : acc[i].words = df[1].words
         THEN drop_duplicates(Tail(df), acc)
         ELSE drop_duplicates(Tail(df), Append(acc, df[1]))

\* lines 137-143 with the dedup of the rows left out
final_songs_keep_all(initial, new) ==
    LET df == initial \o new
    IN [i \in DOMAIN df |-> [song_id |-> i, title |-> df[i].title, album |-> df[i].album,
                             is_outtake |-> df[i].is_outtake, words |-> df[i].words]]

\* the concat of line 137 with the covers put before the session songs
final_songs_covers_first(initial, new) ==
    LET df == drop_duplicates(new \o initial, <<>>)
    IN [i \in DOMAIN df |-> [song_id |-> i, title |-> df[i].title, album |-> df[i].album,
                             is_outtake |-> df[i].is_outtake, words |-> df[i].words]]

\* lines 137-140: concat, drop_duplicates, song_id = 1..n
final_songs(initial, new) ==
    LET df == drop_duplicates(initial \o new, <<>>)
    IN [i \in DOMAIN df |-> [song_id |-> i, title |-> df[i].title, album |-> df[i].album,
                             is_outtake |-> df[i].is_outtake, words |-> df[i].words]]

\* the songs table taken from the session songs alone, without the covers
songs_table_of_initial(df) ==
    LET keep == SelectSeq(df, LAMBDA r : r.album # A_Cover)
    IN [i \in DOMAIN keep |-> [song_id |-> keep[i].song_id, title |-> keep[i].title,
                               album |-> keep[i].album, is_outtake |-> keep[i].is_outtake]]

\* line 141: the songs table without the private column
songs_table_of(df) ==
    [i \in DOMAIN df |-> [song_id |-> df[i].song_id, title |-> df[i].title,
                          album |-> df[i].album, is_outtake |-> df[i].is_outtake]]

\* line 143: matching_map {song_id: word list}, in row order
matching_map_of(df) ==
    [i \in DOMAIN df |-> [song_id |-> df[i].song_id, words |-> df[i].words]]

\* lines 83-144 without either dedup (the seen set and drop_duplicates)
create_final_songs_table_no_dedup(sessions_df, setlists_df, reps) ==
    LET initial == session_songs_no_seen(sessions_df, 1, <<>>)
        known   == {initial[i].words : i \in DOMAIN initial}
        groups  == missing_songs_map(setlists_df, 1, known, <<>>)
    IN final_songs_keep_all(initial, new_songs(groups, reps, 1))

\* lines 83-144 for sessions that yield at least one song; reps is the outcome
\* of min(original_titles, key=len) for each group of missing_songs_map
create_final_songs_table(sessions_df, setlists_df, reps) ==
    LET initial == session_songs(sessions_df, 1, <<>>)
        known   == {initial[i].words : i \in DOMAIN initial}
        groups  == missing_songs_map(setlists_df, 1, known, <<>>)
    IN final_songs(initial, new_songs(groups, reps, 1))

\* the groups of missing_songs_map for the inputs, as create_final_songs_table
\* computes them
cover_groups(sessions_df, setlists_df) ==
    LET initial == session_songs(sessions_df, 1, <<>>)
    IN missing_songs_map(setlists_df, 1, {initial[i].words : i \in DOMAIN initial}, <<>>)

SeqsUpTo(S, n) == UNION {[1..k -> S] : k \in 0..n}

\* ------------------------------------------------------------------- state
VARIABLES
    pc,                          \* position in normalize_database_schema
    exit_status,                 \* exit status of the process, -1 while running
    songs_sessions_df,           \* rows of the sessions file
    setlists_input_df,           \* rows of the raw setlists file
    songs_table_final,           \* create_final_songs_table: songs table
    canonical_matching_map,      \* create_final_songs_table: {song_id: words}
    shows_data,                  \* show resolver: minted shows
    show_keys,                   \* show resolver: identity keys seen
    original_show_key_to_id_map, \* show resolver: (raw date, raw venue) -> show_id
    show_id_counter,
    processed_show_rows,         \* rows scanned by the show loop
    standard_bitusa_id,
    reunion_bitusa_id,
    show_id_to_tour_map,
    setlists,                    \* linker: emitted entries
    setlist_keys,                \* linker: (show_id, song_id, position) seen
    setlist_entry_id_counter,
    processed_count,             \* rows scanned by the linker loop
    skipped_rows,
    duplicate_setlist_entries_skipped,
    match_stats,
    row_locals,                  \* locals of the last linker iteration
    written,                     \* output files written by this run
    call,                        \* last call of a helper made on its own
    input_files,                 \* the input files that exist in INPUT_PATH
    previous_run,                \* tables of the completed run before this one
    workflow_pc,                 \* position in run_workflow, "none" without it
    workflow_exit_status         \* exit status of run_workflow, -1 while running

vars == <<pc, exit_status, songs_sessions_df, setlists_input_df, songs_table_final,
          canonical_matching_map, shows_data, show_keys, original_show_key_to_id_map,
          show_id_counter, processed_show_rows, standard_bitusa_id, reunion_bitusa_id,
          show_id_to_tour_map, setlists, setlist_keys, setlist_entry_id_counter,
          processed_count, skipped_rows, duplicate_setlist_entries_skipped, match_stats,
          row_locals, written, call, input_files, previous_run, workflow_pc,
          workflow_exit_status>>

inputVars == <<songs_sessions_df, setlists_input_df>>
envVars == <<input_files, previous_run, workflow_pc, workflow_exit_status>>
catalogVars == <<songs_table_final, canonical_matching_map>>
showVars == <<shows_data, show_keys, original_show_key_to_id_map, show_id_counter,
              processed_show_rows>>
contextVars == <<standard_bitusa_id, reunion_bitusa_id, show_id_to_tour_map>>
linkVars == <<setlists, setlist_keys, setlist_entry_id_counter, processed_count,
              skipped_rows, duplicate_setlist_entries_skipped, match_stats, row_locals>>

M_Reunion == "Contextual (Reunion Tour)"
M_Standard == "Contextual (Standard BITUSA)"
M_Success == "Sequence Match (Success)"
M_Fail == "Sequence Match (Fail)"
MatchMethods == {M_Reunion, M_Standard, M_Success, M_Fail}

NoCall == [fn |-> "none"]
NoRun == [done |-> FALSE, songs |-> <<>>, matching_map |-> <<>>, shows |-> <<>>,
          setlists |-> <<>>]

\* config.SONGS_SESSIONS_FILENAME and config.SETLISTS_FILENAME
F_SessionsIn == "Sessions, Outtakes, Songs.csv"
F_SetlistsIn == "Setlists.csv"
InputFiles == {F_SessionsIn, F_SetlistsIn}
NoLocals == [row |-> 0, show_id |-> 0, raw_title_words |-> <<>>, outcome |-> "none",
             song_id_to_use |-> 0, match_method |-> "none", position |-> 0, notes |-> <<>>]

\* state at the entry of normalize_database_schema, for given file contents
InitWith(sessions, rows) ==
    /\ pc = "start"
    /\ exit_status = -1
    /\ songs_sessions_df = sessions
    /\ setlists_input_df = rows
    /\ songs_table_final = <<>>
    /\ canonical_matching_map = <<>>
    /\ shows_data = <<>>
    /\ show_keys = {}
    /\ original_show_key_to_id_map = <<>>
    /\ show_id_counter = 1
    /\ processed_show_rows = 0
    /\ standard_bitusa_id = 0
    /\ reunion_bitusa_id = 0
    /\ show_id_to_tour_map = <<>>
    /\ setlists = <<>>
    /\ setlist_keys = {}
    /\ setlist_entry_id_counter = 1
    /\ processed_count = 0
    /\ skipped_rows = 0
    /\ duplicate_setlist_entries_skipped = 0
    /\ match_stats = [m \in MatchMethods |-> 0]
    /\ row_locals = NoLocals
    /\ written = {}
    /\ call = NoCall
    /\ previous_run = NoRun
    /\ workflow_exit_status = -1

Init ==
    \E sessions \in SeqsUpTo(SessionPool, MaxSessions), rows \in SeqsUpTo(RowPool, MaxRows) :
        /\ InitWith(sessions, rows)
        /\ input_files \in SUBSET InputFiles
        /\ workflow_pc = "none"

\* process exit: sys.exit(message) and an uncaught exception give status 1,
\* falling off the end of the script gives 0
Exit(status) ==
    /\ pc' = "exit"
    /\ exit_status' = status

\* the two exists() tests with the second one left out
files_exist_sessions_only(files) == F_SessionsIn \in files

\* lines 345-346: neither exists() test raises FileNotFoundError
files_exist(files) == F_SessionsIn \in files /\ F_SetlistsIn \in files

\* lines 344-361: an input file is missing (FileNotFoundError) or cannot be
\* read (any other exception); both handlers end in sys.exit(message)
LoadFails ==
    /\ pc = "start"
    /\ Exit(1)
    /\ UNCHANGED <<inputVars, envVars, catalogVars, showVars, contextVars, linkVars, written, call>>

\* lines 344-354: both files exist and are read
Load ==
    /\ pc = "start"
    /\ files_exist(input_files)
    /\ pc' = "loaded"
    /\ UNCHANGED <<exit_status, inputVars, envVars, catalogVars, showVars, contextVars, linkVars,
                   written, call>>

\* line 364, create_final_songs_table; with no song from the sessions file
\* initial_songs_df has no '_processed_words' column and line 106 raises KeyError
BuildCatalog ==
    /\ pc = "loaded"
    /\ IF session_songs(songs_sessions_df, 1, <<>>) = <<>>
       THEN /\ Exit(1)
            /\ UNCHANGED catalogVars
       ELSE \E reps \in RepresentativeChoices(cover_groups(songs_sessions_df, setlists_input_df)) :
              \E df \in {create_final_songs_table(songs_sessions_df, setlists_input_df, reps)} :
                 /\ songs_table_final' = songs_table_of(df)
                 /\ canonical_matching_map' = matching_map_of(df)
                 /\ pc' = "shows"
                 /\ UNCHANGED exit_status
    /\ UNCHANGED <<inputVars, envVars, showVars, contextVars, linkVars, written, call>>

\* ----------------------------------------------------------- show resolver
V_UnknownVenue == <<"U","n","k","n","o","w","n"," ","V","e","n","u","e">>

\* lines 166-171: db_date_str, None when the date does not parse
db_date_str_of(original_date_str) ==
    LET date_obj == to_datetime(original_date_str)
    IN IF date_obj.nat THEN None ELSE strftime_ymd(date_obj)

\* identity key with the venue compared without regard to case
unique_show_key_casefold(original_date_str, original_venue_str) ==
    <<db_date_str_of(original_date_str),
      str_lower(IF original_venue_str # <<>> THEN original_venue_str ELSE V_UnknownVenue)>>

\* lines 173-174: unique_show_key = (db_date_str, venue_str)
unique_show_key_of(original_date_str, original_venue_str) ==
    <<db_date_str_of(original_date_str),
      IF original_venue_str # <<>> THEN original_venue_str ELSE V_UnknownVenue>>

\* the raw tour kept as it is, without the fill of lines 187-191
final_tour_name_raw(raw_tour_name, original_date_str) == raw_tour_name

\* lines 186-191: the tour of a minted show
final_tour_name_of(raw_tour_name, original_date_str) ==
    LET date_obj == to_datetime(original_date_str)
    IN IF raw_tour_name # <<>> THEN raw_tour_name
       ELSE IF ~date_obj.nat THEN strftime_y(date_obj)
       ELSE TR_Unknown

\* dict.get(key) on a map kept as a function; 0 stands for None
map_get(m, key) == IF key \in DOMAIN m THEN m[key] ELSE 0

C_UnknownCity == <<"U","n","k","n","o","w","n"," ","C","i","t","y">>

\* line 195: the city of a minted show
city_of(raw_city) == IF raw_city # <<>> THEN raw_city ELSE C_UnknownCity

\* line 200: the notes of a minted show, None when the row has none
show_notes_of(raw_show_notes) == IF raw_show_notes # <<>> THEN raw_show_notes ELSE None

\* the id of a minted show continued after the shows of the run before
current_show_id_merged == show_id_counter + Len(previous_run.shows)

\* line 178: current_show_id = show_id_counter
current_show_id == show_id_counter

\* the show registered under its venue alone
register_show_key_by_venue(m, original_input_key, show_id) ==
    IF <<<<>>, original_input_key[2]>> \in DOMAIN m THEN m
    ELSE m @@ (<<<<>>, original_input_key[2]>> :> show_id)

\* lines 202-204: the original key is registered unless it is in the map
register_show_key(m, original_input_key, show_id) ==
    IF original_input_key \in DOMAIN m THEN m
    ELSE m @@ (original_input_key :> show_id)

\* the same with show_id_counter also advanced by a duplicate row
ShowRowUpdate_id_per_row(row, original_input_key, unique_show_key) ==
    IF unique_show_key \in show_keys
    THEN /\ show_id_counter' = show_id_counter + 1
         /\ UNCHANGED <<shows_data, show_keys, original_show_key_to_id_map>>
    ELSE /\ show_keys' = show_keys \cup {unique_show_key}
         /\ shows_data' = Append(shows_data,
               [show_id |-> current_show_id,
                date |-> unique_show_key[1],
                tour |-> final_tour_name_of(str_strip(row.tour), original_input_key[1]),
                venue |-> unique_show_key[2],
                city |-> city_of(str_strip(row.city)),
                show_notes |-> show_notes_of(str_strip(row.shownotes))])
         /\ original_show_key_to_id_map' =
               register_show_key(original_show_key_to_id_map, original_input_key, current_show_id)
         /\ show_id_counter' = show_id_counter + 1

\* lines 175-205: the row has a date and a venue
ShowRowUpdate(row, original_input_key, unique_show_key) ==
    IF unique_show_key \in show_keys
    THEN UNCHANGED <<shows_data, show_keys, original_show_key_to_id_map, show_id_counter>>
    ELSE /\ show_keys' = show_keys \cup {unique_show_key}
         /\ shows_data' = Append(shows_data,
               [show_id |-> current_show_id,
                date |-> unique_show_key[1],
                tour |-> final_tour_name_of(str_strip(row.tour), original_input_key[1]),
                venue |-> unique_show_key[2],
                city |-> city_of(str_strip(row.city)),
                show_notes |-> show_notes_of(str_strip(row.shownotes))])
         /\ original_show_key_to_id_map' =
               register_show_key(original_show_key_to_id_map, original_input_key, current_show_id)
         /\ show_id_counter' = show_id_counter + 1

\* lines 160-205: one iteration of the show loop
ShowRow ==
    /\ pc = "shows"
    /\ processed_show_rows < Len(setlists_input_df)
    /\ processed_show_rows' = processed_show_rows + 1
    /\ \E row \in {setlists_input_df[processed_show_rows + 1]} :
       \E original_input_key \in {<<str_strip(row.date), str_strip(row.venue)>>} :
         IF original_input_key[1] = <<>> \/ original_input_key[2] = <<>>
         THEN UNCHANGED <<shows_data, show_keys, original_show_key_to_id_map, show_id_counter>>
         ELSE \E unique_show_key \in
                    {unique_show_key_of(original_input_key[1], original_input_key[2])} :
                 ShowRowUpdate(row, original_input_key, unique_show_key)
    /\ UNCHANGED <<pc, exit_status, inputVars, envVars, catalogVars, contextVars, linkVars, written, call>>

\* ---------------------------------------------------------- setlist linker
T_BornInTheUSA == <<"B","o","r","n"," ","I","n"," ","T","h","e"," ","U","S","A">>
reunion_bitusa_lookup_title_raw == <<"B","o","r","n"," ","I","n"," ","T","h","e"," ","U","S","A"," ","(","A","c","o","u","s","t","i","c",")">>
REUNION_TOUR_RAW_NAMES == { <<"r","e","u","n","i","o","n"," ","t","o","u","r">>, <<"r","e","u","n","i","o","n">> }

standard_bitusa_words == preprocess_title_for_matching(T_BornInTheUSA)
reunion_bitusa_words == preprocess_title_for_matching(reunion_bitusa_lookup_title_raw)

\* lines 224-228: the two ids found by the scan of the matching map
RECURSIVE bitusa_ids(_, _, _)
bitusa_ids(index, k, acc) ==
    IF k > Len(index) THEN acc
    ELSE IF index[k].words = standard_bitusa_words
         THEN bitusa_ids(index, k + 1, [acc EXCEPT !.standard = index[k].song_id])
    ELSE IF index[k].words = reunion_bitusa_words
         THEN bitusa_ids(index, k + 1, [acc EXCEPT !.reunion = index[k].song_id])
    ELSE bitusa_ids(index, k + 1, acc)

\* lines 206-243: between the two loops.  With no show minted shows_df has no
\* columns and set_index('show_id') of line 234 raises KeyError.
BuildShowMapping ==
    /\ pc = "shows"
    /\ processed_show_rows = Len(setlists_input_df)
    /\ IF shows_data = <<>>
       THEN /\ Exit(1)
            /\ UNCHANGED contextVars
       ELSE LET ids == bitusa_ids(canonical_matching_map, 1, [standard |-> 0, reunion |-> 0])
            IN /\ standard_bitusa_id' = ids.standard
               /\ reunion_bitusa_id' = ids.reunion
               /\ show_id_to_tour_map' =
                    [id \in {shows_data[i].show_id : i \in DOMAIN shows_data} |->
                        shows_data[CHOOSE i \in DOMAIN shows_data : shows_data[i].show_id = id].tour]
               /\ pc' = "link"
               /\ UNCHANGED exit_status
    /\ UNCHANGED <<inputVars, envVars, catalogVars, showVars, linkVars, written, call>>

\* the alias test without lower()
tour_is_reunion_exact(tour_name) == tour_name \in REUNION_TOUR_RAW_NAMES

\* line 265: tour_name.lower() in REUNION_TOUR_RAW_NAMES
tour_is_reunion(tour_name) == str_lower(tour_name) \in REUNION_TOUR_RAW_NAMES

\* setlist_keys left as it was
setlist_keys_add_forgotten(keys, key) == keys

\* line 291: setlist_keys.add(setlist_key)
setlist_keys_add(keys, key) == keys \cup {key}

\* lines 273-276: the generic matcher's result m as song and method
sequence_result(m) ==
    IF m # 0 THEN [song_id |-> m, method |-> M_Success]
    ELSE [song_id |-> 0, method |-> M_Fail]

\* the contextual rule entered only when both ids were found
resolve_song_both_required(raw_title_words, show_id) ==
    IF raw_title_words = standard_bitusa_words /\ standard_bitusa_id # 0 /\ reunion_bitusa_id # 0
    THEN IF tour_is_reunion(IF show_id \in DOMAIN show_id_to_tour_map
                            THEN show_id_to_tour_map[show_id] ELSE <<>>)
         THEN [song_id |-> reunion_bitusa_id, method |-> M_Reunion]
         ELSE [song_id |-> standard_bitusa_id, method |-> M_Standard]
    ELSE sequence_result(find_match_by_sequence(raw_title_words, canonical_matching_map))

\* lines 262-276: song_id_to_use and match_method of a row with a show and words
resolve_song(raw_title_words, show_id) ==
    IF raw_title_words = standard_bitusa_words /\ standard_bitusa_id # 0
    THEN IF /\ tour_is_reunion(IF show_id \in DOMAIN show_id_to_tour_map
                               THEN show_id_to_tour_map[show_id] ELSE <<>>)
            /\ reunion_bitusa_id # 0
         THEN [song_id |-> reunion_bitusa_id, method |-> M_Reunion]
         ELSE [song_id |-> standard_bitusa_id, method |-> M_Standard]
    ELSE sequence_result(find_match_by_sequence(raw_title_words, canonical_matching_map))

\* lines 285-287: position of the row
position_of(position_val) ==
    LET numeric_pos == to_numeric_int(position_val)
    IN IF numeric_pos.nan THEN 0 ELSE numeric_pos.int

\* the locals of an iteration that ended before a song was looked up
skipped_locals(n, show_id, raw_title_words, outcome) ==
    [row |-> n, show_id |-> show_id, raw_title_words |-> raw_title_words, outcome |-> outcome,
     song_id_to_use |-> 0, match_method |-> "none", position |-> 0, notes |-> <<>>]

\* lines 278-295: the row has a show and words, r is its song and method
matched_locals(n, show_id, raw_title_words, r, position, notes) ==
    [row |-> n, show_id |-> show_id, raw_title_words |-> raw_title_words,
     outcome |-> IF r.song_id = 0 THEN "no_match"
                 ELSE IF <<show_id, r.song_id, position>> \in setlist_keys THEN "duplicate"
                 ELSE "emitted",
     song_id_to_use |-> r.song_id, match_method |-> r.method,
     position |-> IF r.song_id = 0 THEN 0 ELSE position,
     notes |-> IF r.song_id = 0 THEN <<>> ELSE notes]

\* lines 252-260: the rows skipped for a missing show or title
titled_locals(n, show_id, song_title_raw, raw_title_words, position_val, notes_raw) ==
    IF show_id = 0 THEN skipped_locals(n, show_id, raw_title_words, "skipped_no_show")
    ELSE IF song_title_raw = <<>> \/ raw_title_words = <<>>
         THEN skipped_locals(n, show_id, raw_title_words, "skipped_no_title")
    ELSE matched_locals(n, show_id, raw_title_words, resolve_song(raw_title_words, show_id),
                        position_of(position_val), notes_raw)

\* lines 248-251, 259 and 292: the show_id, the words and the notes of row n
link_row_locals(n, row) ==
    titled_locals(n,
        map_get(original_show_key_to_id_map, <<str_strip(row.date), str_strip(row.venue)>>),
        str_strip(row.song), preprocess_title_for_matching(str_strip(row.song)), row.position,
        str_strip(row.notes))

\* the outcomes counted in skipped_rows without the rows that have no title
skipped_outcomes_without_untitled == {"skipped_no_show", "no_match"}

\* lines 254, 255, 260 and 280: the outcomes counted in skipped_rows
skipped_outcomes == {"skipped_no_show", "skipped_no_title", "no_match"}

\* the same with setlist_entry_id_counter also advanced by a dropped row
LinkRowUpdate_id_per_row(loc) ==
    /\ row_locals' = loc
    /\ skipped_rows' =
         IF loc.outcome \in skipped_outcomes
         THEN skipped_rows + 1 ELSE skipped_rows
    /\ match_stats' =
         IF loc.outcome \in {"no_match", "duplicate", "emitted"}
         THEN [match_stats EXCEPT ![loc.match_method] = @ + 1] ELSE match_stats
    /\ duplicate_setlist_entries_skipped' =
         IF loc.outcome = "duplicate"
         THEN duplicate_setlist_entries_skipped + 1 ELSE duplicate_setlist_entries_skipped
    /\ IF loc.outcome = "emitted"
       THEN /\ setlist_keys' = setlist_keys_add(setlist_keys,
                                    <<loc.show_id, loc.song_id_to_use, loc.position>>)
            /\ setlists' = Append(setlists,
                  [setlist_entry_id |-> setlist_entry_id_counter, show_id |-> loc.show_id,
                   song_id |-> loc.song_id_to_use, position |-> loc.position,
                   notes |-> loc.notes])
            /\ setlist_entry_id_counter' = setlist_entry_id_counter + 1
       ELSE /\ setlist_entry_id_counter' = setlist_entry_id_counter + 1
            /\ UNCHANGED <<setlists, setlist_keys>>

\* lines 245-295: the effect of an iteration whose locals are loc
LinkRowUpdate(loc) ==
    /\ row_locals' = loc
    /\ skipped_rows' =
         IF loc.outcome \in skipped_outcomes
         THEN skipped_rows + 1 ELSE skipped_rows
    /\ match_stats' =
         IF loc.outcome \in {"no_match", "duplicate", "emitted"}
         THEN [match_stats EXCEPT ![loc.match_method] = @ + 1] ELSE match_stats
    /\ duplicate_setlist_entries_skipped' =
         IF loc.outcome = "duplicate"
         THEN duplicate_setlist_entries_skipped + 1 ELSE duplicate_setlist_entries_skipped
    /\ IF loc.outcome = "emitted"
       THEN /\ setlist_keys' = setlist_keys_add(setlist_keys,
                                    <<loc.show_id, loc.song_id_to_use, loc.position>>)
            /\ setlists' = Append(setlists,
                  [setlist_entry_id |-> setlist_entry_id_counter, show_id |-> loc.show_id,
                   song_id |-> loc.song_id_to_use, position |-> loc.position,
                   notes |-> loc.notes])
            /\ setlist_entry_id_counter' = setlist_entry_id_counter + 1
       ELSE UNCHANGED <<setlists, setlist_keys, setlist_entry_id_counter>>

\* the dict after a lookup that stores a default for a key it does not hold
dict_after_setdefault(m, key) == IF key \in DOMAIN m THEN m ELSE m @@ (key :> 0)

\* line 250: the dict after final_show_mapping.get(key), which stores nothing
dict_after_get(m, key) == m

\* lines 245-295: one iteration of the linker loop
LinkRow ==
    /\ pc = "link"
    /\ processed_count < Len(setlists_input_df)
    /\ processed_count' = processed_count + 1
    /\ \E loc \in {link_row_locals(processed_count + 1, setlists_input_df[processed_count + 1])} :
         LinkRowUpdate(loc)
    /\ \E row \in {setlists_input_df[processed_count + 1]} :
         original_show_key_to_id_map' =
            dict_after_get(original_show_key_to_id_map, <<str_strip(row.date), str_strip(row.venue)>>)
    /\ UNCHANGED <<shows_data, show_keys, show_id_counter, processed_show_rows>>
    /\ UNCHANGED <<pc, exit_status, inputVars, envVars, catalogVars, contextVars, written, call>>

\* lines 297-329 and 365-367: the tables are returned to normalize_database_schema
FinishLinking ==
    /\ pc = "link"
    /\ processed_count = Len(setlists_input_df)
    /\ pc' = "save_songs"
    /\ UNCHANGED <<exit_status, inputVars, envVars, catalogVars, showVars, contextVars, linkVars,
                   written, call>>

\* ------------------------------------------------------------------ saving
F_Songs == "songs.csv"
F_Shows == "shows.csv"
F_Setlists == "setlists.csv"
OutputFiles == {F_Songs, F_Shows, F_Setlists}

\* lines 369-370: mkdir and songs_table_final.to_csv succeed
SaveSongs ==
    /\ pc = "save_songs"
    /\ written' = written \cup {F_Songs}
    /\ pc' = "save_shows"
    /\ UNCHANGED <<exit_status, inputVars, envVars, catalogVars, showVars, contextVars, linkVars, call>>

\* line 371: shows_table_normalized.to_csv succeeds
SaveShows ==
    /\ pc = "save_shows"
    /\ written' = written \cup {F_Shows}
    /\ pc' = "save_setlists"
    /\ UNCHANGED <<exit_status, inputVars, envVars, catalogVars, showVars, contextVars, linkVars, call>>

\* lines 372-377: setlists_table_normalized.to_csv succeeds, the function
\* returns and the script ends
SaveSetlists ==
    /\ pc = "save_setlists"
    /\ written' = written \cup {F_Setlists}
    /\ Exit(0)
    /\ UNCHANGED <<inputVars, envVars, catalogVars, showVars, contextVars, linkVars, call>>

\* line 378: mkdir or a to_csv raises; the exception is logged, the function
\* returns and the script ends normally
SaveFails ==
    /\ pc \in {"save_songs", "save_shows", "save_setlists"}
    /\ Exit(0)
    /\ UNCHANGED <<inputVars, envVars, catalogVars, showVars, contextVars, linkVars, written, call>>

\* the script is started again on the same input files after a run that came
\* to its end: every object of the process is built anew (lines 86-87, 150-154,
\* 238-240); previous_run keeps the tables of the run that ended
Rerun ==
    /\ pc = "exit"
    /\ exit_status = 0
    /\ ~previous_run.done
    /\ previous_run' = [done |-> TRUE, songs |-> songs_table_final,
                        matching_map |-> canonical_matching_map, shows |-> shows_data,
                        setlists |-> setlists]
    /\ pc' = "start"
    /\ exit_status' = -1
    /\ songs_table_final' = <<>>
    /\ canonical_matching_map' = <<>>
    /\ shows_data' = <<>>
    /\ show_keys' = {}
    /\ original_show_key_to_id_map' = <<>>
    /\ show_id_counter' = 1
    /\ processed_show_rows' = 0
    /\ standard_bitusa_id' = 0
    /\ reunion_bitusa_id' = 0
    /\ show_id_to_tour_map' = <<>>
    /\ setlists' = <<>>
    /\ setlist_keys' = {}
    /\ setlist_entry_id_counter' = 1
    /\ processed_count' = 0
    /\ skipped_rows' = 0
    /\ duplicate_setlist_entries_skipped' = 0
    /\ match_stats' = [m \in MatchMethods |-> 0]
    /\ row_locals' = NoLocals
    /\ written' = {}
    /\ UNCHANGED <<inputVars, input_files, workflow_pc, workflow_exit_status, call>>

Next ==
    \/ LoadFails
    \/ Load
    \/ BuildCatalog
    \/ ShowRow
    \/ BuildShowMapping
    \/ LinkRow
    \/ FinishLinking
    \/ SaveSongs
    \/ SaveShows
    \/ SaveSetlists
    \/ SaveFails
    \/ Rerun

Spec == Init /\ [][Next]_vars

\* ------------------------------------------------------------ run_workflow
\* run_workflow.py lines 41-63: subprocess.run(check=True) raises
\* CalledProcessError on a return code other than zero, and run_script then
\* returns False; otherwise it returns True
run_script(returncode) == returncode = 0

runVars == <<pc, exit_status, inputVars, input_files, previous_run, catalogVars, showVars,
             contextVars, linkVars, written, call>>

\* run_workflow.py lines 78-80: the normalization script has ended and
\* run_script returned False: the workflow logs the error and calls sys.exit(1)
WorkflowStopsAtNormalize ==
    /\ workflow_pc = "normalize"
    /\ pc = "exit"
    /\ ~run_script(exit_status)
    /\ workflow_pc' = "stopped"
    /\ workflow_exit_status' = 1
    /\ UNCHANGED runVars

\* run_workflow.py lines 78 and 84-85: run_script returned True for
\* normalize_data.py and populate_database.py --clear is started
WorkflowStartsPopulate ==
    /\ workflow_pc = "normalize"
    /\ pc = "exit"
    /\ run_script(exit_status)
    /\ workflow_pc' = "populate"
    /\ UNCHANGED <<workflow_exit_status, runVars>>

\* run_workflow.py lines 85-91: populate_database.py ended with status zero
\* and the workflow runs to its end
PopulateSucceeds ==
    /\ workflow_pc = "populate"
    /\ workflow_pc' = "completed"
    /\ workflow_exit_status' = 0
    /\ UNCHANGED runVars

\* run_workflow.py lines 85-88: populate_database.py ended with sys.exit(1)
\* (an output file missing, a database error) and the workflow calls sys.exit(1)
PopulateFails ==
    /\ workflow_pc = "populate"
    /\ workflow_pc' = "stopped"
    /\ workflow_exit_status' = 1
    /\ UNCHANGED runVars

\* the workflow has started normalize_data.py (run_workflow.py line 78)
InitWorkflow ==
    \E sessions \in SeqsUpTo(SessionPool, MaxSessions), rows \in SeqsUpTo(RowPool, MaxRows) :
        /\ InitWith(sessions, rows)
        /\ input_files \in SUBSET InputFiles
        /\ workflow_pc = "normalize"

NextWorkflow ==
    \/ LoadFails
    \/ Load
    \/ BuildCatalog
    \/ ShowRow
    \/ BuildShowMapping
    \/ LinkRow
    \/ FinishLinking
    \/ SaveSongs
    \/ SaveShows
    \/ SaveSetlists
    \/ SaveFails
    \/ WorkflowStopsAtNormalize
    \/ WorkflowStartsPopulate
    \/ PopulateSucceeds
    \/ PopulateFails

SpecWorkflow == InitWorkflow /\ [][NextWorkflow]_vars

\* ------------------------------------------- the matcher called on its own
Tokens == {"a", "b"}
TokenSeqs == SeqsUpTo(Tokens, MaxTokLen)

\* a dict {song_id: words} in insertion order: distinct ids, any order
Indexes ==
    {idx \in SeqsUpTo([song_id : 1..MaxIndex, words : TokenSeqs], MaxIndex) :
        \A i, j \in DOMAIN idx : idx[i].song_id = idx[j].song_id => i = j}

InitMatch ==
    /\ InitWith(<<>>, <<>>)
    /\ input_files = InputFiles
    /\ workflow_pc = "none"

CallIsSubsequence ==
    /\ pc = "start"
    /\ call = NoCall
    /\ \E needle \in TokenSeqs, haystack \in TokenSeqs :
         call' = [fn |-> "is_subsequence", needle |-> needle, haystack |-> haystack,
                  result |-> is_subsequence(needle, haystack)]
    /\ UNCHANGED <<pc, exit_status, inputVars, envVars, catalogVars, showVars, contextVars, linkVars,
                   written>>

CallFindMatch ==
    /\ pc = "start"
    /\ call = NoCall
    /\ \E raw_title_words \in TokenSeqs, canonical_map \in Indexes :
         call' = [fn |-> "find_match_by_sequence", raw_title_words |-> raw_title_words,
                  canonical_map |-> canonical_map,
                  result |-> find_match_by_sequence(raw_title_words, canonical_map)]
    /\ UNCHANGED <<pc, exit_status, inputVars, envVars, catalogVars, showVars, contextVars, linkVars,
                   written>>

NextMatch == CallIsSubsequence \/ CallFindMatch

SpecMatch == InitMatch /\ [][NextMatch]_vars

\* ================================================================ properties
ISO_1975 == <<"1","9","7","5","-","0","8","-","1","5">>

\* the two loops of create_shows_setlists_tables have run to the end
ShowPassDone ==
    /\ pc \in {"shows", "link", "save_songs", "save_shows", "save_setlists", "exit"}
    /\ processed_show_rows = Len(setlists_input_df)

LinkPassDone ==
    /\ pc \in {"save_songs", "save_shows", "save_setlists"}

\* n is an ordered subsequence of h: a strictly increasing map from the
\* positions of n to positions of h holding the same tokens
Embeds(n, h) ==
    \E f \in [DOMAIN n -> DOMAIN h] :
        /\ \A i, j \in DOMAIN n : i < j => f[i] < f[j]
        /\ \A i \in DOMAIN n : h[f[i]] = n[i]

\* rows of the raw file with a date and a venue
ValidRows ==
    {i \in DOMAIN setlists_input_df :
        str_strip(setlists_input_df[i].date) # <<>> /\ str_strip(setlists_input_df[i].venue) # <<>>}

RowKey(i) == <<str_strip(setlists_input_df[i].date), str_strip(setlists_input_df[i].venue)>>

\* C1: on the session record {Born To Run, Album, Thunder Road} and the setlist
\* row {08/15/1975, The Bottom Line, Thunder Road (Solo Piano), 1, 1975 Tour}
\* the pipeline yields exactly one song (Thunder Road, Born To Run, not an
\* outtake), exactly one show dated 1975-08-15 and exactly one entry linking
\* that show to that song at position 1.
C1_EndToEnd ==
    ( /\ songs_sessions_df = << [session |-> A_BornToRun, type |-> K_Album, song |-> T_ThunderRoad] >>
      /\ setlists_input_df = << RawRow(D_Padded, V_BottomLine, TR_1975, <<>>, <<>>,
                                        T_ThunderRoadSolo, P_1, <<>>) >>
      /\ LinkPassDone )
    => /\ Len(songs_table_final) = 1
       /\ songs_table_final[1].title = T_ThunderRoad
       /\ songs_table_final[1].album = A_BornToRun
       /\ songs_table_final[1].is_outtake = 0
       /\ Len(shows_data) = 1
       /\ shows_data[1].date = ISO_1975
       /\ shows_data[1].venue = V_BottomLine
       /\ shows_data[1].tour = TR_1975
       /\ Len(setlists) = 1
       /\ setlists[1].show_id = shows_data[1].show_id
       /\ setlists[1].song_id = songs_table_final[1].song_id
       /\ setlists[1].position = 1

\* C2: no two entries of the catalog built by create_final_songs_table, from
\* the sessions or discovered as covers, have the same token sequence.
C2_CatalogUniqueness ==
    \A i, j \in DOMAIN canonical_matching_map :
        canonical_matching_map[i].words = canonical_matching_map[j].words => i = j

\* the catalog was built from two session records with the same tokens, a
\* setlist title with those tokens and a setlist title that became a cover
C2_Witness ==
    /\ pc = "shows"
    /\ \E i, j \in DOMAIN songs_sessions_df :
         /\ i < j
         /\ tokenize(songs_sessions_df[i].song) # <<>>
         /\ tokenize(songs_sessions_df[i].song) = tokenize(songs_sessions_df[j].song)
         /\ \E r \in DOMAIN setlists_input_df :
              tokenize(setlists_input_df[r].song) = tokenize(songs_sessions_df[i].song)
    /\ \E k \in DOMAIN songs_table_final : songs_table_final[k].album = A_Cover

\* C3: when find_match_by_sequence returns a song id for a non-empty query, the
\* entry of that id is an ordered subsequence of the query and no entry that is
\* an ordered subsequence of the query is strictly longer.
C3_LongestMatch ==
    ( /\ call.fn = "find_match_by_sequence"
      /\ call.raw_title_words # <<>>
      /\ call.result # 0 )
    => \E k \in DOMAIN call.canonical_map :
         /\ call.canonical_map[k].song_id = call.result
         /\ Embeds(call.canonical_map[k].words, call.raw_title_words)
         /\ \A j \in DOMAIN call.canonical_map :
              Embeds(call.canonical_map[j].words, call.raw_title_words)
              => Len(call.canonical_map[j].words) <= Len(call.canonical_map[k].words)

\* a shorter candidate comes first in the index and the longer one is returned
C3_Witness ==
    /\ call.fn = "find_match_by_sequence"
    /\ Len(call.canonical_map) = 2
    /\ call.canonical_map[1].words # <<>>
    /\ Embeds(call.canonical_map[1].words, call.raw_title_words)
    /\ Embeds(call.canonical_map[2].words, call.raw_title_words)
    /\ Len(call.canonical_map[1].words) < Len(call.canonical_map[2].words)
    /\ call.result = call.canonical_map[2].song_id

\* C4: is_subsequence(needle, haystack) is true exactly when a strictly
\* increasing map sends the positions of needle to positions of haystack with
\* equal tokens, so that a haystack position serves one needle position only.
C4_SubsequenceExact ==
    call.fn = "is_subsequence" => (call.result <=> Embeds(call.needle, call.haystack))

\* [a,a] was tested against [a]
C4_Witness ==
    /\ call.fn = "is_subsequence"
    /\ call.needle = <<"a", "a">>
    /\ call.haystack = <<"a">>
    /\ call.result = FALSE

\* C5: find_match_by_sequence returns none for an empty query, and for a
\* non-empty query returns none exactly when no non-empty entry of the index is
\* an ordered subsequence of the query; an id it returns is that of such an entry.
C5_NoMatch ==
    call.fn = "find_match_by_sequence" =>
      LET candidates == {k \in DOMAIN call.canonical_map :
                            /\ call.canonical_map[k].words # <<>>
                            /\ Embeds(call.canonical_map[k].words, call.raw_title_words)}
      IN /\ call.raw_title_words = <<>> => call.result = 0
         /\ call.raw_title_words # <<>> => (call.result = 0 <=> candidates = {})
         /\ call.result # 0 => \E k \in candidates : call.canonical_map[k].song_id = call.result

\* a non-empty query against an index holding an empty entry and an entry that
\* is no subsequence of the query
C5_Witness ==
    /\ call.fn = "find_match_by_sequence"
    /\ call.raw_title_words # <<>>
    /\ Len(call.canonical_map) = 2
    /\ \E k \in DOMAIN call.canonical_map : call.canonical_map[k].words = <<>>
    /\ \E k \in DOMAIN call.canonical_map :
         /\ call.canonical_map[k].words # <<>>
         /\ ~Embeds(call.canonical_map[k].words, call.raw_title_words)
    /\ call.result = 0

\* C6: after the show pass every raw row with a date and a venue has its
\* original (raw date, raw venue) key in the original-key map, also when its
\* identity key had been seen before and the row minted no show.
C6_OriginalKeysRegistered ==
    ShowPassDone =>
      \A i \in ValidRows : RowKey(i) \in DOMAIN original_show_key_to_id_map

ShowsWithKey(date, venue) ==
    {k \in DOMAIN shows_data : shows_data[k].date = date /\ shows_data[k].venue = venue}

CatalogIdOf(words) ==
    IF \E k \in DOMAIN canonical_matching_map : canonical_matching_map[k].words = words
    THEN canonical_matching_map[CHOOSE k \in DOMAIN canonical_matching_map :
                                    canonical_matching_map[k].words = words].song_id
    ELSE 0

TourOfShow(show_id) ==
    shows_data[CHOOSE k \in DOMAIN shows_data : shows_data[k].show_id = show_id].tour

W_born_in_the_usa == << <<"b","o","r","n">>, <<"i","n">>, <<"t","h","e">>, <<"u","s","a">> >>
W_born_in_the_usa_acoustic ==
    << <<"b","o","r","n">>, <<"i","n">>, <<"t","h","e">>, <<"u","s","a">>,
       <<"a","c","o","u","s","t","i","c">> >>

\* the linker has just resolved a row with a show and the tokens born in the usa
\* while the catalog holds both the standard and the acoustic entry
C8_Case ==
    /\ pc = "link"
    /\ row_locals.outcome \notin {"none", "skipped_no_show", "skipped_no_title"}
    /\ row_locals.raw_title_words = W_born_in_the_usa
    /\ CatalogIdOf(W_born_in_the_usa) # 0
    /\ CatalogIdOf(W_born_in_the_usa_acoustic) # 0

\* C8: with both entries in the catalog, a row whose tokens are exactly
\* born in the usa is linked to the acoustic entry when the tour of its show is,
\* without regard to case, "reunion tour" or "reunion", and to the standard
\* entry on any other tour, by the contextual rule and not by the matcher.
C8_ContextualOverride ==
    C8_Case =>
      IF str_lower(TourOfShow(row_locals.show_id)) \in
            { <<"r","e","u","n","i","o","n"," ","t","o","u","r">>, <<"r","e","u","n","i","o","n">> }
      THEN /\ row_locals.outcome \in {"emitted", "duplicate"}
           /\ row_locals.song_id_to_use = CatalogIdOf(W_born_in_the_usa_acoustic)
           /\ row_locals.match_method = M_Reunion
      ELSE /\ row_locals.outcome \in {"emitted", "duplicate"}
           /\ row_locals.song_id_to_use = CatalogIdOf(W_born_in_the_usa)
           /\ row_locals.match_method = M_Standard

\* such a row on a show whose tour is written "Reunion Tour"
C8_Witness ==
    /\ C8_Case
    /\ TourOfShow(row_locals.show_id) = TR_Reunion
    /\ row_locals.song_id_to_use = CatalogIdOf(W_born_in_the_usa_acoustic)
    /\ row_locals.song_id_to_use # CatalogIdOf(W_born_in_the_usa)

\* C9: no two emitted setlist entries have the same (show_id, song_id,
\* position); a row whose triple was emitted before is dropped.
C9_SetlistKeyUnique ==
    /\ \A i, j \in DOMAIN setlists :
         ( /\ setlists[i].show_id = setlists[j].show_id
           /\ setlists[i].song_id = setlists[j].song_id
           /\ setlists[i].position = setlists[j].position ) => i = j
    /\ row_locals.outcome \in {"emitted", "duplicate"} =>
         \E i \in DOMAIN setlists :
            /\ setlists[i].show_id = row_locals.show_id
            /\ setlists[i].song_id = row_locals.song_id_to_use
            /\ setlists[i].position = row_locals.position

\* a row was dropped because its triple had been emitted
C9_Witness ==
    /\ row_locals.outcome = "duplicate"
    /\ Len(setlists) >= 1

\* C10: the batch ends either with the three outputs written, or with none
\* written and a failure exit; never with a part of them, and never with exit
\* status zero after an output could not be written.
C10_AllOrNothing ==
    pc = "exit" =>
      \/ written = OutputFiles /\ exit_status = 0
      \/ written = {} /\ exit_status # 0

\* the ids of the shows with the identity keys they were minted for
ShowIds(shows) ==
    [k \in DOMAIN shows |-> <<shows[k].show_id, shows[k].date, shows[k].venue>>]

\* the ids of the entries with the triples they were emitted for
EntryIds(entries) ==
    [k \in DOMAIN entries |-> <<entries[k].setlist_entry_id, entries[k].show_id,
                                 entries[k].song_id, entries[k].position>>]

\* C11: when the script is run again on the same session records and the same
\* raw rows, the second run gives every token sequence the song_id, every
\* (date, venue) the show_id and every (show, song, position) the
\* setlist_entry_id that the first run gave them.
C11_RerunDeterminism ==
    (previous_run.done /\ LinkPassDone) =>
       /\ canonical_matching_map = previous_run.matching_map
       /\ ShowIds(shows_data) = ShowIds(previous_run.shows)
       /\ EntryIds(setlists) = EntryIds(previous_run.setlists)

\* a second run has linked its rows; the two runs chose different spellings
\* for the title of a cover
C11_Witness ==
    /\ previous_run.done
    /\ LinkPassDone
    /\ Len(setlists) >= 1
    /\ songs_table_final # previous_run.songs

\* C12: every entry emitted by the linker has an integer position that is zero
\* or more, whatever the raw position of its row was.
C12_PositionNonNegative ==
    \A k \in DOMAIN setlists : setlists[k].position \in Nat

\* C13: after the show pass, a raw row that has a date and whose venue is empty
\* after trimming has a show with the venue 'Unknown Venue' and the row's
\* normalized date.
C13_MissingVenueDefault ==
    ShowPassDone =>
      \A i \in DOMAIN setlists_input_df :
        ( /\ str_strip(setlists_input_df[i].date) # <<>>
          /\ str_strip(setlists_input_df[i].venue) = <<>> )
        => \E k \in DOMAIN shows_data :
              /\ shows_data[k].venue = V_UnknownVenue
              /\ shows_data[k].date = db_date_str_of(str_strip(setlists_input_df[i].date))

\* the token sequences of the session titles and of the setlist titles
SessionTokens ==
    {preprocess_title_for_matching(songs_sessions_df[i].song) : i \in DOMAIN songs_sessions_df} \ {<<>>}

RowTokens ==
    {preprocess_title_for_matching(setlists_input_df[i].song) : i \in DOMAIN setlists_input_df} \ {<<>>}

\* the first session record, the first raw row, with the given token sequence
FirstSession(words) ==
    CHOOSE i \in DOMAIN songs_sessions_df :
        /\ preprocess_title_for_matching(songs_sessions_df[i].song) = words
        /\ \A j \in 1..(i - 1) : preprocess_title_for_matching(songs_sessions_df[j].song) # words

FirstRow(words) ==
    CHOOSE i \in DOMAIN setlists_input_df :
        /\ preprocess_title_for_matching(setlists_input_df[i].song) = words
        /\ \A j \in 1..(i - 1) : preprocess_title_for_matching(setlists_input_df[j].song) # words

CatalogBuilt == canonical_matching_map # <<>>

CatalogWords == {canonical_matching_map[k].words : k \in DOMAIN canonical_matching_map}

IsCover(k) == canonical_matching_map[k].words \notin SessionTokens

\* C14: the catalog has one song for each token sequence of the session titles
\* and of the setlist titles, the k-th song has song_id k in the songs table and
\* in the index, the songs of the session records come in the order of their
\* first record, and every one of them comes before every cover.
C14_DenseSongIds ==
    CatalogBuilt =>
      /\ Len(songs_table_final) = Len(canonical_matching_map)
      /\ Len(canonical_matching_map) = Cardinality(SessionTokens \cup RowTokens)
      /\ CatalogWords = SessionTokens \cup RowTokens
      /\ \A k \in DOMAIN canonical_matching_map :
           /\ songs_table_final[k].song_id = k
           /\ canonical_matching_map[k].song_id = k
      /\ \A j, k \in DOMAIN canonical_matching_map :
           j < k =>
             /\ ~(IsCover(j) /\ ~IsCover(k))
             /\ (~IsCover(j) /\ ~IsCover(k)) =>
                  FirstSession(canonical_matching_map[j].words)
                    < FirstSession(canonical_matching_map[k].words)

\* a catalog of two session songs followed by two covers
C14_Witness ==
    /\ CatalogBuilt
    /\ Len(canonical_matching_map) = 4
    /\ ~IsCover(1) /\ ~IsCover(2) /\ IsCover(3) /\ IsCover(4)
    /\ songs_table_final[4].song_id = 4

\* the identity key (normalized date, venue) of raw row i
IdentityKey(i) == <<db_date_str_of(RowKey(i)[1]), RowKey(i)[2]>>

\* the rows with a date and a venue that the show loop has scanned
ScannedRows == {i \in ValidRows : i <= processed_show_rows}

\* the first scanned row with the identity key of show k
FirstRowOfShow(k) ==
    CHOOSE i \in ScannedRows :
        /\ IdentityKey(i) = <<shows_data[k].date, shows_data[k].venue>>
        /\ \A j \in ScannedRows : IdentityKey(j) = IdentityKey(i) => i <= j

\* C15: at every point of the show pass there is one show for each identity
\* key of the rows scanned so far, the k-th show has show_id k, the next id is
\* the number of shows plus one (skipped and duplicate rows took none), the
\* shows are in the order of the first rows of their keys, and the tour, city
\* and notes of a show are taken from the first row of its key.
C15_DenseShowIds ==
    /\ show_id_counter = Len(shows_data) + 1
    /\ Len(shows_data) = Cardinality({IdentityKey(i) : i \in ScannedRows})
    /\ \A k \in DOMAIN shows_data :
         /\ shows_data[k].show_id = k
         /\ \E i \in ScannedRows : IdentityKey(i) = <<shows_data[k].date, shows_data[k].venue>>
    /\ \A j, k \in DOMAIN shows_data : j < k => FirstRowOfShow(j) < FirstRowOfShow(k)
    /\ \A k \in DOMAIN shows_data :
         LET first == setlists_input_df[FirstRowOfShow(k)]
         IN /\ str_strip(first.tour) # <<>> => shows_data[k].tour = str_strip(first.tour)
            /\ str_strip(first.city) # <<>> => shows_data[k].city = str_strip(first.city)
            /\ str_strip(first.city) = <<>> => shows_data[k].city = C_UnknownCity
            /\ str_strip(first.shownotes) # <<>> => shows_data[k].show_notes = str_strip(first.shownotes)
            /\ str_strip(first.shownotes) = <<>> => shows_data[k].show_notes = None

\* the second row has the identity key of the first and another city and other
\* notes; one show was minted, with the city and the notes of the first row
C15_Witness ==
    /\ ShowPassDone
    /\ Len(setlists_input_df) = 2
    /\ ScannedRows = {1, 2}
    /\ IdentityKey(1) = IdentityKey(2)
    /\ str_strip(setlists_input_df[1].city) # str_strip(setlists_input_df[2].city)
    /\ str_strip(setlists_input_df[1].shownotes) # str_strip(setlists_input_df[2].shownotes)
    /\ Len(shows_data) = 1
    /\ show_id_counter = 2

Y_1975 == <<"1","9","7","5">>
UnknownTourLiteral == <<"U","n","k","n","o","w","n"," ","T","o","u","r">>

\* C16: at every point of the show pass every show has a tour that is not
\* empty: the trimmed tour of the row that minted it when that is not empty,
\* otherwise the four digits of the year of its normalized date when it has
\* one, otherwise 'Unknown Tour'.
C16_TourNeverEmpty ==
    \A k \in DOMAIN shows_data :
      LET raw_tour == str_strip(setlists_input_df[FirstRowOfShow(k)].tour)
      IN /\ shows_data[k].tour # <<>>
         /\ IF raw_tour # <<>> THEN shows_data[k].tour = raw_tour
            ELSE IF shows_data[k].date # None
                 THEN /\ Len(shows_data[k].tour) = 4
                      /\ AllDigits(shows_data[k].tour)
                      /\ shows_data[k].tour = SubSeq(shows_data[k].date, 1, 4)
            ELSE shows_data[k].tour = UnknownTourLiteral

\* two rows without a tour, one dated 08/15/1975 and one with a date that does
\* not parse, minted a show of tour '1975' and a show of tour 'Unknown Tour'
C16_Witness ==
    /\ ShowPassDone
    /\ Len(shows_data) = 2
    /\ \A i \in DOMAIN setlists_input_df : str_strip(setlists_input_df[i].tour) = <<>>
    /\ \E k \in DOMAIN shows_data : shows_data[k].tour = Y_1975
    /\ \E k \in DOMAIN shows_data :
         shows_data[k].tour = UnknownTourLiteral /\ shows_data[k].date = None

\* the rows the linker dropped or emitted, counted
C17_RowsAccounted ==
    /\ Len(setlists) = processed_count - skipped_rows - duplicate_setlist_entries_skipped
    /\ row_locals.outcome = "skipped_no_show" <=>
         (row_locals.row # 0 /\ RowKey(row_locals.row) \notin DOMAIN original_show_key_to_id_map)
    /\ row_locals.outcome \in {"skipped_no_show", "skipped_no_title", "no_match"} =>
         \/ row_locals.show_id = 0
         \/ row_locals.raw_title_words = <<>>
         \/ row_locals.song_id_to_use = 0

\* C17: a row whose original key is not in the show map, or whose tokens match
\* no catalog entry, is dropped without an entry, and it is never fatal: once
\* the catalog is built, a run with such a row does not end with a failure
\* status, so that the rows that can be resolved are emitted.
C17_UnresolvableNonFatal ==
    /\ C17_RowsAccounted
    /\ ( /\ CatalogBuilt
         /\ pc = "exit"
         /\ \E i \in DOMAIN setlists_input_df :
               RowKey(i) \notin DOMAIN original_show_key_to_id_map )
       => exit_status = 0

\* C18: when the sessions file or the raw setlists file does not exist, the run
\* goes from its start to a failure exit and nothing else: no catalog and no
\* show is built and none of the three output files is written.
C18_MissingInputAborts ==
    ( /\ (F_SessionsIn \notin input_files \/ F_SetlistsIn \notin input_files)
      /\ pc # "start" )
    => /\ pc = "exit"
       /\ exit_status # 0
       /\ written = {}
       /\ ~CatalogBuilt
       /\ shows_data = <<>>
       /\ setlists = <<>>

\* the run ended at the load step with the raw setlists file missing and
\* setlist rows that would otherwise have been processed
C18_Witness ==
    /\ input_files = {F_SessionsIn}
    /\ songs_sessions_df # <<>>
    /\ setlists_input_df # <<>>
    /\ pc = "exit"
    /\ exit_status = 1
    /\ written = {}

\* the positions of the index entries that are candidates for the query of the
\* call, and those of the candidates of maximal length
CallCandidates ==
    {k \in DOMAIN call.canonical_map :
        /\ call.canonical_map[k].words # <<>>
        /\ Embeds(call.canonical_map[k].words, call.raw_title_words)}

CallLongest ==
    {k \in CallCandidates :
        \A j \in CallCandidates :
            Len(call.canonical_map[j].words) <= Len(call.canonical_map[k].words)}

\* C19: when several candidates have the maximal length, find_match_by_sequence
\* returns the id of the one that comes first in the iteration order of the
\* index, which is a function of the query and the index alone; for an index in
\* ascending id order, as the pipeline builds it, that is the lowest id.
C19_TieBreakFirst ==
    (call.fn = "find_match_by_sequence" /\ call.result # 0) =>
       /\ \E k \in CallLongest :
            /\ \A j \in CallLongest : k <= j
            /\ call.result = call.canonical_map[k].song_id
       /\ (\A i, j \in DOMAIN call.canonical_map :
               i < j => call.canonical_map[i].song_id < call.canonical_map[j].song_id)
          => \A j \in CallLongest : call.result <= call.canonical_map[j].song_id

\* two candidates of the same length, the one with the higher id first in the
\* index: the first one is returned
C19_Witness ==
    /\ call.fn = "find_match_by_sequence"
    /\ Len(call.canonical_map) = 2
    /\ CallLongest = {1, 2}
    /\ call.canonical_map[1].song_id > call.canonical_map[2].song_id
    /\ call.result = call.canonical_map[1].song_id

\* C20 as stated: the covers have their song_ids in the sorted order of their
\* token sequences.
C20_CoversSorted ==
    CatalogBuilt =>
      \A j, k \in DOMAIN canonical_matching_map :
        (j < k /\ IsCover(j) /\ IsCover(k)) =>
           tuple_less(canonical_matching_map[j].words, canonical_matching_map[k].words)

\* C20 amended: the covers have their song_ids in the order in which their
\* token sequences first occur in the song column of the raw rows.
C20_CoversFirstSeen ==
    CatalogBuilt =>
      \A j, k \in DOMAIN canonical_matching_map :
        (j < k /\ IsCover(j) /\ IsCover(k)) =>
           FirstRow(canonical_matching_map[j].words) < FirstRow(canonical_matching_map[k].words)

\* two covers whose ids follow the order of the rows and not the sorted order
\* of their token sequences
C20_Witness ==
    /\ CatalogBuilt
    /\ \E j, k \in DOMAIN canonical_matching_map :
         /\ j < k
         /\ IsCover(j)
         /\ IsCover(k)
         /\ tuple_less(canonical_matching_map[k].words, canonical_matching_map[j].words)
         /\ songs_table_final[j].song_id < songs_table_final[k].song_id
         /\ FirstRow(canonical_matching_map[j].words) < FirstRow(canonical_matching_map[k].words)

\* the linker has just resolved a row with a show and the tokens born in the usa
\* while the catalog lacks the standard or the acoustic entry
C21_Case ==
    /\ pc = "link"
    /\ row_locals.outcome \notin {"none", "skipped_no_show", "skipped_no_title"}
    /\ row_locals.raw_title_words = W_born_in_the_usa
    /\ (CatalogIdOf(W_born_in_the_usa) = 0 \/ CatalogIdOf(W_born_in_the_usa_acoustic) = 0)

\* C21 as stated: with the standard or the acoustic entry missing, a row whose
\* tokens are born in the usa is resolved by the sequence matcher and counted
\* as a sequence match.
C21_SkippedWhenEitherMissing ==
    C21_Case => row_locals.match_method \in {M_Success, M_Fail}

\* C21 amended: a row of a pipeline run whose tokens are born in the usa always
\* finds the standard entry in the catalog; when the acoustic entry is
\* missing the row is still resolved by the contextual rule, on any tour: it is
\* linked to the standard entry and counted as Contextual (Standard BITUSA).
C21_ContextualNeedsStandardOnly ==
    C21_Case =>
       /\ CatalogIdOf(W_born_in_the_usa) # 0
       /\ standard_bitusa_id = CatalogIdOf(W_born_in_the_usa)
       /\ reunion_bitusa_id = 0
       /\ row_locals.outcome \in {"emitted", "duplicate"}
       /\ row_locals.song_id_to_use = standard_bitusa_id
       /\ row_locals.match_method = M_Standard
       /\ match_stats[M_Standard] >= 1

\* such a row on a show of the Reunion Tour, counted as contextual
C21_Witness ==
    /\ C21_Case
    /\ TourOfShow(row_locals.show_id) = TR_Reunion
    /\ row_locals.match_method = M_Standard
    /\ match_stats[M_Success] = 0

\* C22: at every point of the linker pass the k-th entry has setlist_entry_id
\* k, the next id is the number of entries plus one, the rows dropped for a
\* missing show, an empty title, a failed match or a duplicate triple account
\* for the rest of the rows processed, and the notes of an entry are a string,
\* never None: the trimmed notes of its row, empty when the row has none.
C22_DenseEntryIds ==
    /\ setlist_entry_id_counter = Len(setlists) + 1
    /\ Len(setlists) = processed_count - skipped_rows - duplicate_setlist_entries_skipped
    /\ \A k \in DOMAIN setlists :
         /\ setlists[k].setlist_entry_id = k
         /\ setlists[k].notes # None
         /\ \E i \in DOMAIN setlists_input_df :
              setlists[k].notes = str_strip(setlists_input_df[i].notes)
    /\ row_locals.outcome = "emitted" =>
         /\ Len(setlists) >= 1
         /\ setlists[Len(setlists)].notes = str_strip(setlists_input_df[row_locals.row].notes)

\* the first row was dropped and the second, which has no notes, was emitted
\* with id 1 and the empty string as notes
C22_Witness ==
    /\ processed_count = 2
    /\ skipped_rows + duplicate_setlist_entries_skipped = 1
    /\ row_locals.row = 2
    /\ row_locals.outcome = "emitted"
    /\ Len(setlists) = 1
    /\ setlists[1].setlist_entry_id = 1
    /\ setlists[1].notes = <<>>

\* C23: no step taken while the linker pass is under way changes the songs
\* table, the token index, the original-key map, the shows or the tour map:
\* after any prefix of the rows they are what they were when the pass began.
C23_LinkerReadsOnly ==
    [][pc = "link" =>
         UNCHANGED <<songs_table_final, canonical_matching_map, original_show_key_to_id_map,
                     shows_data, show_id_to_tour_map, standard_bitusa_id, reunion_bitusa_id>>]_vars

\* the linker has processed two rows, one of them without a show in the map,
\* and emitted an entry
C23_Witness ==
    /\ pc = "link"
    /\ processed_count = 2
    /\ skipped_rows = 1
    /\ Len(setlists) = 1
    /\ \E i \in DOMAIN setlists_input_df : RowKey(i) \notin DOMAIN original_show_key_to_id_map

\* the six outcomes of the statistics
O_Standard == "contextual-standard"
O_Override == "contextual-override"
O_Success == "sequence-success"
O_Fail == "sequence-fail"
O_NoShow == "skipped-no-show"
O_NoTitle == "skipped-no-title"
SixOutcomes == {O_Standard, O_Override, O_Success, O_Fail, O_NoShow, O_NoTitle}

\* the outcome of raw row i, from the inputs, the catalog and the shows
OutcomeOfRow(i) ==
    LET words == preprocess_title_for_matching(str_strip(setlists_input_df[i].song))
        show_id == map_get(original_show_key_to_id_map, RowKey(i))
    IN IF show_id = 0 THEN O_NoShow
       ELSE IF words = <<>> THEN O_NoTitle
       ELSE IF words = W_born_in_the_usa /\ CatalogIdOf(W_born_in_the_usa) # 0
            THEN IF /\ str_lower(TourOfShow(show_id)) \in REUNION_TOUR_RAW_NAMES
                    /\ CatalogIdOf(W_born_in_the_usa_acoustic) # 0
                 THEN O_Override ELSE O_Standard
       ELSE IF \E k \in DOMAIN canonical_matching_map :
                  /\ canonical_matching_map[k].words # <<>>
                  /\ Embeds(canonical_matching_map[k].words, words)
            THEN O_Success ELSE O_Fail

\* the number of rows processed by the linker that had outcome o
TrueCount(o) == Cardinality({i \in 1..processed_count : OutcomeOfRow(i) = o})

K_Skipped == "Total skipped (missing show map or missing song title)"

\* lines 301-312: the counts the pass has at its end and logs
LoggedStatistics ==
    [k \in MatchMethods \cup {K_Skipped} |->
        IF k = K_Skipped THEN skipped_rows - match_stats[M_Fail] ELSE match_stats[k]]

\* C24 as stated: after the linker pass each of the six outcomes has a count of
\* its own among the statistics of the pass, equal to the number of rows with
\* that outcome.
C24_SixSeparateCounts ==
    LinkPassDone =>
      \E f \in [SixOutcomes -> DOMAIN LoggedStatistics] :
        /\ \A o, p \in SixOutcomes : f[o] = f[p] => o = p
        /\ \A o \in SixOutcomes : LoggedStatistics[f[o]] = TrueCount(o)

\* C24 amended: the pass keeps five counts, one for each of the four match
\* methods and one for the rows skipped for a missing show or a missing title
\* taken together; every processed row is counted in exactly one of them, so
\* the five counts sum to the number of rows processed.
C24_FiveCounts ==
    pc \in {"link", "save_songs", "save_shows", "save_setlists"} =>
      /\ DOMAIN LoggedStatistics = MatchMethods \cup {K_Skipped}
      /\ match_stats[M_Standard] = TrueCount(O_Standard)
      /\ match_stats[M_Reunion] = TrueCount(O_Override)
      /\ match_stats[M_Success] = TrueCount(O_Success)
      /\ match_stats[M_Fail] = TrueCount(O_Fail)
      /\ LoggedStatistics[K_Skipped] = TrueCount(O_NoShow) + TrueCount(O_NoTitle)
      /\ match_stats[M_Standard] + match_stats[M_Reunion] + match_stats[M_Success]
           + match_stats[M_Fail] + LoggedStatistics[K_Skipped] = processed_count

\* a pass over a row without a show and a row without a title: one count of 2
\* for the two of them
C24_Witness ==
    /\ LinkPassDone
    /\ processed_count = 2
    /\ TrueCount(O_NoShow) = 1
    /\ TrueCount(O_NoTitle) = 1
    /\ LoggedStatistics[K_Skipped] = 2

\* the linker has just handled a row that has a show and a non-empty token sequence
C25_Case ==
    /\ pc = "link"
    /\ processed_count > 0
    /\ row_locals.outcome \notin {"none", "skipped_no_show", "skipped_no_title"}

\* C25: in a pipeline run sequence matching never fails: every row with a
\* show and a non-empty token sequence receives a song_id, and unless the
\* contextual override applies the song is the catalog entry whose tokens
\* equal the tokens of the row, never a shorter session song contained in it.
C25_SequenceNeverFails ==
    /\ match_stats[M_Fail] = 0
    /\ C25_Case =>
         /\ row_locals.outcome \in {"emitted", "duplicate"}
         /\ row_locals.song_id_to_use # 0
         /\ CatalogIdOf(row_locals.raw_title_words) # 0
         /\ OutcomeOfRow(processed_count) # O_Override =>
               row_locals.song_id_to_use = CatalogIdOf(row_locals.raw_title_words)

\* a row whose tokens contain the tokens of a shorter session song, linked by
\* the matcher to the entry of its own tokens
C25_Witness ==
    /\ C25_Case
    /\ row_locals.match_method = M_Success
    /\ \E k \in DOMAIN canonical_matching_map :
          /\ canonical_matching_map[k].words # <<>>
          /\ Len(canonical_matching_map[k].words) < Len(row_locals.raw_title_words)
          /\ Embeds(canonical_matching_map[k].words, row_locals.raw_title_words)
          /\ songs_table_final[k].album # A_Cover
          /\ row_locals.song_id_to_use # canonical_matching_map[k].song_id
    /\ row_locals.song_id_to_use = CatalogIdOf(row_locals.raw_title_words)

\* C26: referential integrity: every emitted setlist entry has the show_id of a
\* show of the shows output and the song_id of a song of the songs output.
C26_ReferentialIntegrity ==
    \A e \in DOMAIN setlists :
       /\ \E k \in DOMAIN shows_data : shows_data[k].show_id = setlists[e].show_id
       /\ \E j \in DOMAIN songs_table_final : songs_table_final[j].song_id = setlists[e].song_id

\* a finished pass with two entries, of two shows and two songs, one of them a cover
C26_Witness ==
    /\ LinkPassDone
    /\ Len(setlists) = 2
    /\ setlists[1].show_id # setlists[2].show_id
    /\ setlists[1].song_id # setlists[2].song_id
    /\ \E j \in DOMAIN songs_table_final :
          /\ songs_table_final[j].song_id = setlists[2].song_id
          /\ songs_table_final[j].album = A_Cover

\* C27: the original-key map is one-to-one with the minted shows: distinct
\* keys have distinct show_ids, every minted show_id is the image of a key, and
\* the size of the map is the number of shows, so the test of line 214 is
\* never true.
C27_MapOneToOne ==
    /\ \A k1, k2 \in DOMAIN original_show_key_to_id_map :
          k1 # k2 => original_show_key_to_id_map[k1] # original_show_key_to_id_map[k2]
    /\ {original_show_key_to_id_map[k] : k \in DOMAIN original_show_key_to_id_map}
          = {shows_data[i].show_id : i \in DOMAIN shows_data}
    /\ Cardinality(DOMAIN original_show_key_to_id_map) = Len(shows_data)

\* the show pass has ended with two shows at one venue
C27_Witness ==
    /\ pc = "link"
    /\ Len(shows_data) = 2
    /\ shows_data[1].venue = shows_data[2].venue
    /\ Cardinality(DOMAIN original_show_key_to_id_map) = 2

\* C28: the display title of a cover group is a function of the inputs alone:
\* a second run on the same inputs has the songs output of the first run.
C28_TitlesDeterministic ==
    (previous_run.done /\ pc \in {"shows", "link", "save_songs", "save_shows", "save_setlists"}) =>
       songs_table_final = previous_run.songs

\* C29: when no session record yields a song, create_final_songs_table still
\* completes and returns a catalog of the covers found in the setlist titles
\* alone, with the song_ids 1..N.
C29_CoversOnlyCatalog ==
    [][(pc = "loaded" /\ session_songs(songs_sessions_df, 1, <<>>) = <<>>) =>
          /\ pc' = "shows"
          /\ Len(songs_table_final') = Len(cover_groups(songs_sessions_df, setlists_input_df))
          /\ \A j \in DOMAIN songs_table_final' :
                /\ songs_table_final'[j].song_id = j
                /\ songs_table_final'[j].album = A_Cover]_vars

\* C30: the population step is started only after the normalization step of
\* the same run has written its three outputs; when normalization or the
\* writing of its outputs fails, the workflow stops with exit status 1 and
\* population is not started.
C30_PopulateAfterOutputs ==
    /\ workflow_pc \in {"populate", "completed"} => written = OutputFiles
    /\ (workflow_pc = "stopped" /\ written # OutputFiles) => workflow_exit_status = 1
    /\ (pc = "exit" /\ written # OutputFiles) => workflow_pc \in {"normalize", "stopped"}

====
